---- MODULE Spec2Model ----
(***************************************************************************)
(* A model of realtime/connection.py: the Socket object, its registry of   *)
(* channels, the receive loop listen(), the heartbeat loop _keep_alive()   *)
(* and the caller-facing operations connect, disconnect, subscribe and     *)
(* set_channel.  The websocket transport is an external collaborator: its  *)
(* outcomes (a connection attempt succeeds or not, a handle closes, a      *)
(* frame arrives) are nondeterministic inputs.                             *)
(***************************************************************************)
EXTENDS Integers, Sequences, FiniteSets, TLC

\* ------------------------------------------------------------------ bounds
MaxHandles == 2      \* transport handles websockets.connect hands out
MaxChans == 2        \* Channel objects created by set_channel
MaxListeners == 3    \* listeners registered over all Channels
MaxQueued == 1       \* frames a handle holds that listen() has not taken in yet
MaxTicks == 2        \* heartbeat intervals one _keep_alive() sleeps through in a row

\* ------------------------------------------------------- inputs and values
Topics == {"t1", "t2"}
Events == {"e1", "phx_reply"}
Payloads == {"p1", "p2"}
Absent == "absent"
EmptyPayload == "{}"

\* ws_connection is only annotated in __init__, never assigned there
NoHandle == 0

\* realtime.message constants
PHOENIX_CHANNEL == "phoenix"
HEARTBEAT_PAYLOAD == "ping"
ChannelEvents == [reply |-> "phx_reply", heartbeat |-> "heartbeat", join |-> "phx_join"]

\* the two coroutines a caller may start with _keep_alive()
KeepAlives == {1, 2}

VARIABLES
    connected,      \* Socket.connected
    ws_connection,  \* Socket.ws_connection: NoHandle or a handle id
    open,           \* open[h]: the transport's .open of every handle handed out
    kept_alive,     \* Socket.kept_alive
    channels,       \* Socket.channels: topic -> sequence of channel ids
    chanTopic,      \* chanTopic[c]: Channel.topic of channel object c
    listeners,      \* listeners[c]: Channel.listeners, the events in order
    cpc, ch,        \* the caller's awaited disconnect() and the handle it closes
    dsc,            \* disconnect() completed on the current handle and the caller
                    \* has not called connect() since
    kpc, kerr,      \* the _keep_alive() coroutines: position, escaped error
    ksend,          \* how each coroutine's latest send attempt went
    kconn,          \* connect() calls each coroutine ran since that attempt
    kticks, kbeats, \* intervals slept and heartbeats sent since its start or last failed send
    lpc, lh, msg, ci, li, calls, snap, lerr,   \* the listen() coroutine
    queued,         \* frames the transport has received on lh that the loop has
                    \* not taken in yet
    again,          \* the envelope whose callback is awaited is not the first this
                    \* listen() took in
    last            \* the operation that ran last: error surfaced, frames written

connVars == <<connected, ws_connection, open, kept_alive>>
regVars == <<channels, chanTopic, listeners>>
callerVars == <<cpc, ch, dsc>>
keepVars == <<kpc, ksend, kconn, kerr, kticks, kbeats>>
listenVars == <<lpc, lh, msg, ci, li, calls, snap, lerr, queued, again>>
vars == <<connVars, regVars, callerVars, keepVars, listenVars, last>>

NoMsg == [topic |-> Absent, event |-> Absent, payload |-> Absent]

\* what a caller-facing operation or a send did: the error it surfaced and
\* the frames it wrote; Other stands for every step that does neither
Done(op, err, out) == [op |-> op, err |-> err, out |-> out]
Other == Done("other", "none", <<>>)

\* json.dumps(dict(topic=..., event=..., payload=..., ref=None)) as written to a handle
Dumps(topic, event, payload) ==
    [json |-> TRUE, topic |-> topic, event |-> event, payload |-> payload, ref |-> "null"]

Init ==
    /\ connected = FALSE
    /\ ws_connection = NoHandle
    /\ open = <<>>
    /\ kept_alive = FALSE
    /\ channels = [t \in Topics |-> <<>>]
    /\ chanTopic = <<>>
    /\ listeners = <<>>
    /\ cpc = "idle"
    /\ ch = NoHandle
    /\ dsc = FALSE
    /\ kpc = [k \in KeepAlives |-> "idle"]
    /\ ksend = [k \in KeepAlives |-> "none"]
    /\ kconn = [k \in KeepAlives |-> 0]
    /\ kerr = [k \in KeepAlives |-> "none"]
    /\ kticks = [k \in KeepAlives |-> 0]
    /\ kbeats = [k \in KeepAlives |-> 0]
    /\ lpc = "idle"
    /\ lh = NoHandle
    /\ msg = NoMsg
    /\ ci = 0
    /\ li = 0
    /\ calls = <<>>
    /\ snap = <<>>
    /\ lerr = "none"
    /\ queued = 0
    /\ again = FALSE
    /\ last = Other

\* ------------------------------------------------------------- transport
\* what `await websockets.connect(self.url)` can come back with
ConnectOutcomes == {"open", "notopen", "rejected"}

\* the server or the network closes a handle
TransportClose(h) ==
    /\ h \in 1..Len(open)
    /\ open[h]
    /\ open' = [open EXCEPT ![h] = FALSE]
    /\ last' = Other
    /\ UNCHANGED <<connected, ws_connection, kept_alive, regVars, callerVars, keepVars, listenVars>>

\* a frame from the server reaches the handle a listen() loop iterates and
\* waits there until the loop asks for its next frame; a closed handle
\* receives nothing more but keeps what it holds
TransportReceive ==
    /\ lpc \in {"recv", "callback"}
    /\ open[lh]
    /\ queued < MaxQueued
    /\ queued' = queued + 1
    /\ last' = Other
    /\ UNCHANGED <<connVars, regVars, callerVars, keepVars,
                   lpc, lh, msg, ci, li, calls, snap, lerr, again>>

\* ---------------------------------------------------------------- connect
\* the body of Socket.connect once websockets.connect has answered
ConnectError(outcome) == IF outcome = "open" THEN "none" ELSE "ConnectionFailed"

ConnectBody(outcome) ==
    /\ outcome \in ConnectOutcomes
    /\ IF outcome = "open"
       THEN /\ Len(open) < MaxHandles
            /\ open' = Append(open, TRUE)
            /\ ws_connection' = Len(open) + 1
            /\ connected' = TRUE
       ELSE UNCHANGED <<open, ws_connection, connected>>
    /\ UNCHANGED kept_alive

\* Socket.connect called by the caller; nothing of the Socket changes before
\* websockets.connect answers, so the call is one step taken at the answer
Connect(outcome) ==
    /\ ConnectBody(outcome)
    /\ dsc' = FALSE
    /\ last' = Done("connect", ConnectError(outcome), <<>>)
    /\ UNCHANGED <<regVars, cpc, ch, keepVars, listenVars>>

\* ------------------------------------------------------------- disconnect
CloseOutcomes == {"closed", "error"}

DisconnectCall ==
    /\ cpc = "idle"
    /\ IF ws_connection = NoHandle
       THEN /\ last' = Done("disconnect", "AttributeError", <<>>)
            /\ UNCHANGED <<cpc, ch, dsc>>
       ELSE /\ cpc' = "closing"
            /\ ch' = ws_connection
            /\ last' = Other
            /\ UNCHANGED dsc
    /\ UNCHANGED <<connVars, regVars, keepVars, listenVars>>

\* `await self.ws_connection.close()` answers; the lines after it run only
\* when close() did not raise
DisconnectReturn(outcome) ==
    /\ cpc = "closing"
    /\ outcome \in CloseOutcomes
    /\ IF outcome = "closed"
       THEN /\ open' = [open EXCEPT ![ch] = FALSE]
            /\ connected' = FALSE
            /\ dsc' = (ch = ws_connection)
            /\ last' = Done("disconnect", "none", <<>>)
       ELSE /\ UNCHANGED <<open, connected, dsc>>
            /\ last' = Done("disconnect", "CloseError", <<>>)
    /\ cpc' = "idle"
    /\ ch' = NoHandle
    /\ UNCHANGED <<ws_connection, kept_alive, regVars, keepVars, listenVars>>

\* -------------------------------------------------------------- subscribe
\* subscribe carries no @ensure_connection; the except branch prints the
\* unbound name e
SubscribeResultMut(topic) ==
    IF ws_connection = NoHandle THEN Done("subscribe", "AttributeError", <<>>)
    ELSE IF ~open[ws_connection] THEN Done("subscribe", "NameError", <<>>)
    ELSE Done("subscribe", "none",
              <<[h |-> ws_connection, frame |-> Dumps(topic, ChannelEvents.join, EmptyPayload)],
                [h |-> ws_connection, frame |-> Dumps(topic, ChannelEvents.join, EmptyPayload)]>>)
SubscribeResult(topic) ==
    IF ws_connection = NoHandle THEN Done("subscribe", "AttributeError", <<>>)
    ELSE IF ~open[ws_connection] THEN Done("subscribe", "NameError", <<>>)
    ELSE Done("subscribe", "none",
              <<[h |-> ws_connection, frame |-> Dumps(topic, ChannelEvents.join, EmptyPayload)]>>)

Subscribe(topic) ==
    /\ topic \in Topics
    /\ last' = SubscribeResult(topic)
    /\ UNCHANGED <<connVars, regVars, callerVars, keepVars, listenVars>>

\* ------------------------------------------------------------ set_channel
\* the ensure_connection wrapper
EnsureConnection == connected

\* a set_channel that hands back the channel a topic already has
SetChannelMut(topic) ==
    /\ topic \in Topics
    /\ IF ~EnsureConnection
       THEN /\ last' = Done("set_channel", "NotConnectedError", <<>>)
            /\ UNCHANGED regVars
       ELSE IF channels[topic] # <<>>
       THEN /\ last' = Done("set_channel", "none", <<>>)
            /\ UNCHANGED regVars
       ELSE /\ Len(chanTopic) < MaxChans
            /\ chanTopic' = Append(chanTopic, topic)
            /\ listeners' = Append(listeners, <<>>)
            /\ channels' = [channels EXCEPT ![topic] = Append(@, Len(chanTopic) + 1)]
            /\ last' = Done("set_channel", "none", <<>>)
    /\ UNCHANGED <<connVars, callerVars, keepVars, listenVars>>

SetChannel(topic) ==
    /\ topic \in Topics
    /\ IF ~EnsureConnection
       THEN /\ last' = Done("set_channel", "NotConnectedError", <<>>)
            /\ UNCHANGED regVars
       ELSE /\ Len(chanTopic) < MaxChans
            /\ chanTopic' = Append(chanTopic, topic)
            /\ listeners' = Append(listeners, <<>>)
            /\ channels' = [channels EXCEPT ![topic] = Append(@, Len(chanTopic) + 1)]
            /\ last' = Done("set_channel", "none", <<>>)
    /\ UNCHANGED <<connVars, callerVars, keepVars, listenVars>>

RECURSIVE NumListeners(_)
NumListeners(n) == IF n = 0 THEN 0 ELSE Len(listeners[n]) + NumListeners(n - 1)

\* Channel.on(event, callback)
On(c, event) ==
    /\ c \in 1..Len(listeners)
    /\ event \in Events
    /\ NumListeners(Len(listeners)) < MaxListeners
    /\ listeners' = [listeners EXCEPT ![c] = Append(@, event)]
    /\ last' = Other
    /\ UNCHANGED <<connVars, channels, chanTopic, callerVars, keepVars, listenVars>>

\* ------------------------------------------------------------ _keep_alive
KeepAliveStart(k) ==
    /\ kpc[k] = "idle"
    /\ kpc' = [kpc EXCEPT ![k] = "send"]
    /\ last' = Other
    /\ UNCHANGED <<connVars, regVars, callerVars, ksend, kconn, kerr, kticks, kbeats, listenVars>>

\* where the except ConnectionClosed branch takes the coroutine: into
\* `await self.connect()`
KeepAliveOnClosedMut == "send"
KeepAliveOnClosed == "connecting"

\* one pass through the try block up to the send
KeepAliveSend(k) ==
    /\ kpc[k] = "send"
    /\ IF ws_connection = NoHandle
       THEN /\ kpc' = [kpc EXCEPT ![k] = "failed"]
            /\ kerr' = [kerr EXCEPT ![k] = "AttributeError"]
            /\ ksend' = [ksend EXCEPT ![k] = "error"]
            /\ kconn' = [kconn EXCEPT ![k] = 0]
            /\ last' = Done("heartbeat", "AttributeError", <<>>)
            /\ UNCHANGED <<kticks, kbeats>>
       ELSE IF open[ws_connection]
       THEN /\ kpc' = [kpc EXCEPT ![k] = "sleep"]
            /\ ksend' = [ksend EXCEPT ![k] = "sent"]
            /\ kconn' = [kconn EXCEPT ![k] = 0]
            /\ kbeats' = [kbeats EXCEPT ![k] = @ + 1]
            /\ UNCHANGED kticks
            /\ last' = Done("heartbeat", "none",
                   <<[h |-> ws_connection,
                      frame |-> Dumps(PHOENIX_CHANNEL, ChannelEvents.heartbeat, HEARTBEAT_PAYLOAD)]>>)
            /\ UNCHANGED kerr
       ELSE /\ kpc' = [kpc EXCEPT ![k] = KeepAliveOnClosed]
            /\ ksend' = [ksend EXCEPT ![k] = "closed"]
            /\ kconn' = [kconn EXCEPT ![k] = 0]
            /\ kticks' = [kticks EXCEPT ![k] = 0]
            /\ kbeats' = [kbeats EXCEPT ![k] = 0]
            /\ last' = Done("heartbeat", "ConnectionClosed", <<>>)
            /\ UNCHANGED kerr
    /\ UNCHANGED <<connVars, regVars, callerVars, listenVars>>

\* where the coroutine goes when asyncio.sleep returns: back to the top of
\* `while True`, the next send
KeepAliveAfterSleepMut == "sleep"
KeepAliveAfterSleep == "send"

\* asyncio.sleep(self.hb_interval) is over
KeepAliveTick(k) ==
    /\ kpc[k] = "sleep"
    /\ kticks[k] < MaxTicks
    /\ kpc' = [kpc EXCEPT ![k] = KeepAliveAfterSleep]
    /\ kticks' = [kticks EXCEPT ![k] = @ + 1]
    /\ last' = Other
    /\ UNCHANGED <<connVars, regVars, callerVars, ksend, kconn, kerr, kbeats, listenVars>>

\* the connect() awaited in the except branch answers; an exception it
\* raises is raised inside the handler and leaves the coroutine
KeepAliveAfterConnect(k, outcome) ==
    IF ConnectError(outcome) = "none" THEN [pc |-> "send", err |-> "none"]
    ELSE [pc |-> "failed", err |-> ConnectError(outcome)]

KeepAliveReconnect(k, outcome) ==
    /\ kpc[k] = "connecting"
    /\ ConnectBody(outcome)
    /\ kpc' = [kpc EXCEPT ![k] = KeepAliveAfterConnect(k, outcome).pc]
    /\ kerr' = [kerr EXCEPT ![k] = KeepAliveAfterConnect(k, outcome).err]
    /\ kconn' = [kconn EXCEPT ![k] = @ + 1]
    /\ last' = Done("reconnect", ConnectError(outcome), <<>>)
    /\ UNCHANGED <<regVars, callerVars, ksend, kticks, kbeats, listenVars>>

\* ----------------------------------------------------------------- listen
\* frames as the transport delivers them: text that is JSON or not, and the
\* keys the JSON object carries
Frame(json, topic, event, payload) ==
    [json |-> json, topic |-> topic, event |-> event, payload |-> payload]

WellFormed == {Frame(TRUE, t, e, p) : t \in Topics, e \in Events, p \in Payloads}
Malformed == {Frame(FALSE, Absent, Absent, Absent),
              Frame(TRUE, Absent, "e1", "p1"),
              Frame(TRUE, "t1", Absent, "p1")}
Frames == WellFormed \cup Malformed

\* Message(**fields): the constructor raises on a missing topic or event
MessageInit(frame) ==
    IF frame.topic = Absent \/ frame.event = Absent
    THEN [err |-> "TypeError", m |-> NoMsg]
    ELSE [err |-> "none",
          m |-> [topic |-> frame.topic, event |-> frame.event, payload |-> frame.payload]]

\* Message(**json.loads(msg)): json.loads raises on text that is not JSON
Parse(frame) ==
    IF ~frame.json THEN [err |-> "JSONDecodeError", m |-> NoMsg]
    ELSE MessageInit(frame)

\* self.channels.get(msg.topic, [])
ChannelsGet(topic) == channels[topic]

\* `if cl.event == msg.event`
ListenerMatches(c, j, m) == listeners[c][j] = m.event

\* the two nested for loops, run from position (i, j) of the iteration up
\* to the next listener whose callback is awaited; <<0, 0>> when both loops
\* run out.  The lists are the live ones: what was appended while a
\* callback was awaited is seen.
RECURSIVE Scan(_, _, _)
Scan(m, i, j) ==
    IF i > Len(ChannelsGet(m.topic)) THEN <<0, 0>>
    ELSE IF j > Len(listeners[ChannelsGet(m.topic)[i]]) THEN Scan(m, i + 1, 1)
    ELSE IF ListenerMatches(ChannelsGet(m.topic)[i], j, m) THEN <<i, j>>
    ELSE Scan(m, i, j + 1)

\* `if msg.event == ChannelEvents.reply: continue`
IsReplyMut(m) == FALSE
IsReply(m) == m.event = ChannelEvents.reply

\* first position the dispatch of m stops at
FirstCallback(m) == IF IsReply(m) THEN <<0, 0>> ELSE Scan(m, 1, 1)

\* `await cl.callback(msg.payload)`
CallbackArg(m) == m.payload

Call(m, pos) ==
    [chan |-> ChannelsGet(m.topic)[pos[1]], idx |-> pos[2], arg |-> CallbackArg(m)]

\* the listeners registered for m's topic and event when m is received,
\* in registry order (a record of the moment, not program state)
RECURSIVE Registered(_, _, _)
Registered(m, i, j) ==
    IF i > Len(channels[m.topic]) THEN <<>>
    ELSE IF j > Len(listeners[channels[m.topic][i]]) THEN Registered(m, i + 1, 1)
    ELSE IF listeners[channels[m.topic][i]][j] = m.event
    THEN <<[chan |-> channels[m.topic][i], idx |-> j]>> \o Registered(m, i, j + 1)
    ELSE Registered(m, i, j + 1)

\* `async for msg in self.ws_connection` binds the handle of that moment;
\* n frames have reached that handle before and are still held by it
ListenStart(n) ==
    /\ lpc \in {"idle", "done", "failed"}
    /\ n \in 0..MaxQueued
    /\ IF ws_connection = NoHandle
       THEN /\ n = 0
            /\ lpc' = "failed"
            /\ lerr' = "AttributeError"
            /\ UNCHANGED lh
       ELSE /\ lpc' = "recv"
            /\ lerr' = "none"
            /\ lh' = ws_connection
    /\ queued' = n
    /\ msg' = NoMsg
    /\ ci' = 0
    /\ li' = 0
    /\ calls' = <<>>
    /\ snap' = <<>>
    /\ again' = FALSE
    /\ last' = Other
    /\ UNCHANGED <<connVars, regVars, callerVars, keepVars>>

\* where one iteration of the loop body goes for a parsed frame
ListenOnFrame(frame) ==
    IF Parse(frame).err # "none" THEN [pc |-> "failed", err |-> Parse(frame).err]
    ELSE IF FirstCallback(Parse(frame).m) = <<0, 0>> THEN [pc |-> "recv", err |-> "none"]
    ELSE [pc |-> "callback", err |-> "none"]

\* a loop that takes in the next frame while a callback is still awaited
ListenAwaitsFrameMut == lpc \in {"recv", "callback"}

\* the loop asks for the next frame only when the body for the previous one
\* has run to its end
ListenAwaitsFrame == lpc = "recv"

\* a loop that asks self.ws_connection for the next frame on every pass
ListenRecvMut(frame) ==
    /\ lpc = "recv"
    /\ IF ws_connection = lh THEN queued > 0 ELSE open[ws_connection]
    /\ frame \in Frames
    /\ queued' = IF ListenOnFrame(frame).pc = "failed" THEN 0
                 ELSE IF ws_connection = lh THEN queued - 1 ELSE queued
    /\ lpc' = ListenOnFrame(frame).pc
    /\ lerr' = ListenOnFrame(frame).err
    /\ msg' = Parse(frame).m
    /\ IF ListenOnFrame(frame).pc = "callback"
       THEN /\ ci' = FirstCallback(msg')[1]
            /\ li' = FirstCallback(msg')[2]
            /\ calls' = <<Call(msg', FirstCallback(msg'))>>
       ELSE /\ ci' = 0
            /\ li' = 0
            /\ calls' = <<>>
    /\ snap' = IF Parse(frame).err = "none" THEN Registered(msg', 1, 1) ELSE <<>>
    /\ again' = (ListenOnFrame(frame).pc = "callback" /\ msg # NoMsg)
    /\ last' = Other
    /\ UNCHANGED <<connVars, regVars, callerVars, keepVars, lh>>

\* the iterator yields the next frame its handle holds, whether or not the
\* handle has closed since the frame came in, and the body runs up to its
\* first await; a loop that ends leaves the frames it has not taken behind
ListenRecv(frame) ==
    /\ ListenAwaitsFrame
    /\ queued > 0
    /\ frame \in Frames
    /\ queued' = IF ListenOnFrame(frame).pc = "failed" THEN 0 ELSE queued - 1
    /\ lpc' = ListenOnFrame(frame).pc
    /\ lerr' = ListenOnFrame(frame).err
    /\ msg' = Parse(frame).m
    /\ IF ListenOnFrame(frame).pc = "callback"
       THEN /\ ci' = FirstCallback(msg')[1]
            /\ li' = FirstCallback(msg')[2]
            /\ calls' = <<Call(msg', FirstCallback(msg'))>>
       ELSE /\ ci' = 0
            /\ li' = 0
            /\ calls' = <<>>
    /\ snap' = IF Parse(frame).err = "none" THEN Registered(msg', 1, 1) ELSE <<>>
    /\ again' = (ListenOnFrame(frame).pc = "callback" /\ msg # NoMsg)
    /\ last' = Other
    /\ UNCHANGED <<connVars, regVars, callerVars, keepVars, lh>>

\* how an awaited callback can end: it returns, raises, or raises
\* ConnectionClosed (the one exception the loop body catches)
CallbackOutcomes == {"return", "raise", "closed"}

\* a raising callback that takes the heartbeat coroutines down with it
CallbackReturnMut(outcome) ==
    /\ lpc = "callback"
    /\ outcome \in CallbackOutcomes
    /\ IF outcome = "return"
       THEN IF Scan(msg, ci, li + 1) = <<0, 0>>
            THEN /\ lpc' = "recv"
                 /\ ci' = 0
                 /\ li' = 0
                 /\ UNCHANGED <<calls, lerr, kpc, kerr>>
            ELSE /\ ci' = Scan(msg, ci, li + 1)[1]
                 /\ li' = Scan(msg, ci, li + 1)[2]
                 /\ calls' = Append(calls, Call(msg, Scan(msg, ci, li + 1)))
                 /\ UNCHANGED <<lpc, lerr, kpc, kerr>>
       ELSE /\ lpc' = IF outcome = "closed" THEN "done" ELSE "failed"
            /\ lerr' = IF outcome = "closed" THEN "none" ELSE "CallbackError"
            /\ kpc' = IF outcome = "closed" THEN kpc
                      ELSE [k \in KeepAlives |-> IF kpc[k] = "idle" THEN "idle" ELSE "failed"]
            /\ kerr' = IF outcome = "closed" THEN kerr
                       ELSE [k \in KeepAlives |-> IF kpc[k] = "idle" THEN kerr[k] ELSE "CallbackError"]
            /\ UNCHANGED <<ci, li, calls>>
    /\ queued' = IF lpc' \in {"recv", "callback"} THEN queued ELSE 0
    /\ again' = (again /\ lpc' = "callback")
    /\ last' = Other
    /\ UNCHANGED <<connVars, regVars, callerVars, ksend, kconn, kticks, kbeats, lh, msg, snap>>

CallbackReturn(outcome) ==
    /\ lpc = "callback"
    /\ outcome \in CallbackOutcomes
    /\ IF outcome = "return"
       THEN IF Scan(msg, ci, li + 1) = <<0, 0>>
            THEN /\ lpc' = "recv"
                 /\ ci' = 0
                 /\ li' = 0
                 /\ UNCHANGED <<calls, lerr>>
            ELSE /\ ci' = Scan(msg, ci, li + 1)[1]
                 /\ li' = Scan(msg, ci, li + 1)[2]
                 /\ calls' = Append(calls, Call(msg, Scan(msg, ci, li + 1)))
                 /\ UNCHANGED <<lpc, lerr>>
       ELSE /\ lpc' = IF outcome = "closed" THEN "done" ELSE "failed"
            /\ lerr' = IF outcome = "closed" THEN "none" ELSE "CallbackError"
            /\ UNCHANGED <<ci, li, calls>>
    /\ queued' = IF lpc' \in {"recv", "callback"} THEN queued ELSE 0
    /\ again' = (again /\ lpc' = "callback")
    /\ last' = Other
    /\ UNCHANGED <<connVars, regVars, callerVars, keepVars, lh, msg, snap>>

\* the iterator finds its handle closed and empty: it ends on a normal
\* closure and raises ConnectionClosedError, outside the try block, on an
\* abnormal one
EndOutcomes == {"ok", "error"}

ListenEnd(outcome) ==
    /\ lpc = "recv"
    /\ ~open[lh]
    /\ queued = 0
    /\ outcome \in EndOutcomes
    /\ lpc' = IF outcome = "ok" THEN "done" ELSE "failed"
    /\ lerr' = IF outcome = "ok" THEN "none" ELSE "ConnectionClosed"
    /\ last' = Other
    /\ UNCHANGED <<connVars, regVars, callerVars, keepVars, lh, msg, ci, li, calls, snap, queued, again>>

\* ------------------------------------------------------------------- next
NextConn ==
    \/ \E h \in 1..MaxHandles : TransportClose(h)
    \/ \E o \in ConnectOutcomes : Connect(o)
    \/ DisconnectCall
    \/ \E o \in CloseOutcomes : DisconnectReturn(o)
    \/ \E t \in Topics : Subscribe(t)
    \/ \E t \in Topics : SetChannel(t)
    \/ \E k \in KeepAlives : KeepAliveStart(k)
    \/ \E k \in KeepAlives : KeepAliveSend(k)
    \/ \E k \in KeepAlives : KeepAliveTick(k)
    \/ \E k \in KeepAlives, o \in ConnectOutcomes : KeepAliveReconnect(k, o)

SpecConn == Init /\ [][NextConn]_vars

\* a caller that registers channels and listens, and starts no heartbeat
NextListen ==
    \/ \E h \in 1..MaxHandles : TransportClose(h)
    \/ \E o \in ConnectOutcomes : Connect(o)
    \/ \E t \in Topics : SetChannel(t)
    \/ \E c \in 1..MaxChans, e \in Events : On(c, e)
    \/ \E n \in 0..MaxQueued : ListenStart(n)
    \/ TransportReceive
    \/ \E f \in Frames : ListenRecv(f)
    \/ \E o \in CallbackOutcomes : CallbackReturn(o)
    \/ \E o \in EndOutcomes : ListenEnd(o)

SpecListen == Init /\ [][NextListen]_vars

\* one session with every operation at work together: the caller connects,
\* registers on one topic, subscribes, listens, runs one heartbeat loop and
\* disconnects
SessionTopic == "t1"
SessionEvent == "e1"
SessionFrames == {Frame(TRUE, SessionTopic, SessionEvent, "p1")}

NextSession ==
    \/ \E h \in 1..MaxHandles : TransportClose(h)
    \/ \E o \in ConnectOutcomes : Connect(o)
    \/ DisconnectCall
    \/ \E o \in CloseOutcomes : DisconnectReturn(o)
    \/ Subscribe(SessionTopic)
    \/ SetChannel(SessionTopic)
    \/ \E c \in 1..MaxChans : On(c, SessionEvent)
    \/ KeepAliveStart(1)
    \/ KeepAliveSend(1)
    \/ KeepAliveTick(1)
    \/ \E o \in ConnectOutcomes : KeepAliveReconnect(1, o)
    \/ \E n \in 0..MaxQueued : ListenStart(n)
    \/ TransportReceive
    \/ \E f \in SessionFrames : ListenRecv(f)
    \/ \E o \in CallbackOutcomes : CallbackReturn(o)
    \/ \E o \in EndOutcomes : ListenEnd(o)

SpecSession == Init /\ [][NextSession]_vars

Next ==
    \/ NextConn
    \/ NextListen
    \/ NextSession

Spec == Init /\ [][Next]_vars

\* ================================================================== claims
\* listen() is through with the envelope in msg: no callback is awaited
Handled == msg # NoMsg /\ lpc # "callback"

\* number of times the listener r = [chan, idx] was invoked for msg
Invocations(r) ==
    Cardinality({n \in 1..Len(calls) : calls[n].chan = r.chan /\ calls[n].idx = r.idx})

Range(q) == {q[n] : n \in 1..Len(q)}

\* every invocation made for msg is of a listener of msg's topic and event,
\* with msg's payload, and no listener is invoked twice
OnlyMatching ==
    \A n \in 1..Len(calls) :
        /\ chanTopic[calls[n].chan] = msg.topic
        /\ listeners[calls[n].chan][calls[n].idx] = msg.event
        /\ calls[n].arg = msg.payload
        /\ Invocations(calls[n]) = 1

\* C1 as stated: for every received envelope whose event is not the reply
\* event, once listen() is through with it each listener registered on its
\* event under its topic has been invoked exactly once with its payload, and
\* no other listener has been invoked.
C1_Dispatch ==
    (Handled /\ msg.event # ChannelEvents.reply) =>
        /\ \A r \in Range(snap) : Invocations(r) = 1
        /\ OnlyMatching

\* C2 as stated: subscribe(topic) or set_channel(topic) called while
\* connected is false fails with NotConnectedError, writes no frame and
\* leaves the registry unchanged.
C2_PreconditionEnforced ==
    [][\A t \in Topics :
          ((Subscribe(t) \/ SetChannel(t)) /\ ~connected) =>
              /\ last'.err = "NotConnectedError"
              /\ last'.out = <<>>
              /\ UNCHANGED regVars]_vars

\* C3 as stated: connected is true exactly when the current transport
\* handle exists and is open.
C3_ConnectedIffOpen ==
    connected <=> (ws_connection # NoHandle /\ open[ws_connection])

\* C4 as stated: a frame that cannot be parsed is dropped and the receive
\* loop keeps running: no parse error ends listen().
C4_MalformedDropped ==
    ~(lpc = "failed" /\ lerr \in {"JSONDecodeError", "TypeError"})

\* C5 as stated: a connect() that fails in the heartbeat loop neither ends
\* the loop nor surfaces an error; the loop stays alive to try again.
C5_ReconnectRetried ==
    \A k \in KeepAlives : ~(kpc[k] = "failed" /\ kerr[k] = "ConnectionFailed")

\* C6: after a heartbeat send failed on a closed transport, the heartbeat
\* loop has run connect() exactly once when it is at its next send attempt
\* (and when a failing connect() ended it), and not yet while that connect()
\* is awaited.
C6_ReconnectOnClosure ==
    \A k \in KeepAlives :
        ksend[k] = "closed" =>
            /\ kpc[k] \in {"connecting", "send", "failed"}
            /\ kpc[k] = "connecting" => kconn[k] = 0
            /\ kpc[k] \in {"send", "failed"} => kconn[k] = 1

C6_Witness ==
    \E k \in KeepAlives : ksend[k] = "closed" /\ kpc[k] = "send" /\ kconn[k] = 1

\* C7: an envelope whose event is the reply event reaches no listener, also
\* when a listener is registered on the reply event under its topic, and the
\* receive loop goes on to the next frame (it ends only with its handle).
C7_ReplySuppressed ==
    (msg # NoMsg /\ msg.event = ChannelEvents.reply) =>
        /\ calls = <<>>
        /\ lpc # "callback"
        /\ lerr \notin {"CallbackError", "TypeError", "JSONDecodeError"}
        /\ lpc = "recv" \/ ~open[lh]

C7_Witness ==
    /\ msg # NoMsg
    /\ msg.event = ChannelEvents.reply
    /\ lpc = "recv"
    /\ \E c \in 1..Len(chanTopic) :
          chanTopic[c] = msg.topic /\ ChannelEvents.reply \in Range(listeners[c])

\* position of channel c in the registry sequence of topic t
Pos(c, t) == CHOOSE i \in 1..Len(channels[t]) : channels[t][i] = c

\* the invocations made for msg follow registry order among channels and
\* registration order within a channel
InOrder ==
    \A n \in 1..Len(calls) : \A k \in 1..Len(calls) :
        n < k =>
            \/ Pos(calls[n].chan, msg.topic) < Pos(calls[k].chan, msg.topic)
            \/ /\ calls[n].chan = calls[k].chan
               /\ calls[n].idx < calls[k].idx

\* channels of msg's topic that had a listener on msg's event at receipt
Matching == {r.chan : r \in Range(snap)}
Reached == {calls[n].chan : n \in 1..Len(calls)}

\* C8 as stated: for one matching envelope all channels registered under its
\* topic receive dispatch, in registration order, listeners in registration
\* order within a channel.
C8_FanOut ==
    (Handled /\ msg.event # ChannelEvents.reply) =>
        /\ Matching \subseteq Reached
        /\ InOrder

\* C9 as stated: when disconnect() has returned or failed, connected is
\* false.
C9_DisconnectEndsDisconnected ==
    last.op = "disconnect" => ~connected

\* C10 as stated: a connect() that fails, as the first connect or as the
\* heartbeat loop's reconnect, fails with ConnectionFailed and leaves
\* connected false; one that succeeds stores an open handle and sets
\* connected.
C10_FailedConnectDisconnected ==
    /\ (last.op = "reconnect" /\ last.err # "none") =>
           last.err = "ConnectionFailed" /\ ~connected
    /\ (last.op = "connect" /\ last.err # "none" /\ ws_connection = NoHandle) =>
           last.err = "ConnectionFailed" /\ ~connected
    /\ (last.op \in {"connect", "reconnect"} /\ last.err = "none") =>
           connected /\ ws_connection # NoHandle /\ open[ws_connection]

\* the join frame of a topic as it goes over the wire
JoinFrame(t) ==
    [json |-> TRUE, topic |-> t, event |-> "phx_join", payload |-> "{}", ref |-> "null"]

\* C11: subscribe(topic) called while connected with an open transport
\* writes exactly one frame {topic, "phx_join", {}, null} to the current
\* handle, completes in that step without an error and without any envelope
\* being received, and changes neither the registry nor connected.
C11_JoinHandshake ==
    [][\A t \in Topics :
          (Subscribe(t) /\ connected /\ ws_connection # NoHandle /\ open[ws_connection]) =>
              /\ last'.op = "subscribe"
              /\ last'.err = "none"
              /\ last'.out = <<[h |-> ws_connection, frame |-> JoinFrame(t)]>>
              /\ UNCHANGED <<regVars, connVars, listenVars>>]_vars

C11_Witness ==
    /\ last.op = "subscribe"
    /\ connected
    /\ open[ws_connection]
    /\ Len(last.out) = 1
    /\ last.out[1].frame.topic = "t2"
    /\ lpc = "idle"

\* one new Channel object was appended at the end of topic t's sequence and
\* nothing else of the registry moved
AppendedOne(t) ==
    /\ chanTopic' = Append(chanTopic, t)
    /\ channels' = [channels EXCEPT ![t] = Append(@, Len(chanTopic) + 1)]
    /\ listeners' = Append(listeners, <<>>)

\* the sequences of the registry hold distinct channels of their topic in
\* call order, one for every set_channel that went through
NoCoalescing ==
    /\ \A t \in Topics : \A n \in 1..Len(channels[t]) :
          /\ chanTopic[channels[t][n]] = t
          /\ \A k \in 1..Len(channels[t]) : n < k => channels[t][n] < channels[t][k]
    /\ \A c \in 1..Len(chanTopic) : \E n \in 1..Len(channels[chanTopic[c]]) :
          channels[chanTopic[c]][n] = c

\* C12: every set_channel(T) made while connected appends exactly one new
\* Channel at the end of T's sequence, leaves the other sequences alone and
\* writes no frame, so n calls leave n distinct channels in call order; no
\* step of any other operation changes the registry sequences.
C12_RegisterNoCoalesce ==
    /\ []NoCoalescing
    /\ [][/\ \A t \in Topics :
               (SetChannel(t) /\ connected) =>
                   AppendedOne(t) /\ last'.err = "none" /\ last'.out = <<>>
          /\ \/ UNCHANGED <<channels, chanTopic>>
             \/ \E t \in Topics :
                   connected /\ AppendedOne(t) /\ last'.op = "set_channel"]_vars

C12_Witness ==
    /\ Len(channels[SessionTopic]) = 2
    /\ channels[SessionTopic] = <<1, 2>>
    /\ last.op = "set_channel"
    /\ last.err = "none"
    /\ lpc = "callback"
    /\ kpc[1] = "sleep"

\* the heartbeat envelope as it goes over the wire
HeartbeatFrame ==
    [json |-> TRUE, topic |-> PHOENIX_CHANNEL, event |-> "heartbeat",
     payload |-> HEARTBEAT_PAYLOAD, ref |-> "null"]

\* C13: counted from the start of a heartbeat loop (or from its last
\* reconnect), while its sends find the transport open the loop has sent at
\* least as many heartbeat envelopes as intervals have gone by, one more
\* while it sleeps; every frame the loop writes is the heartbeat envelope
\* (reserved topic, event heartbeat, fixed payload, ref null) and goes alone
\* to the current handle.
C13_HeartbeatCadence ==
    /\ \A k \in KeepAlives :
          /\ kbeats[k] >= kticks[k]
          /\ (kpc[k] = "sleep") => kbeats[k] = kticks[k] + 1
    /\ (last.op = "heartbeat" /\ last.err = "none") =>
          last.out = <<[h |-> ws_connection, frame |-> HeartbeatFrame]>>
    /\ (last.op = "heartbeat" /\ last.err # "none") => last.out = <<>>

C13_Witness ==
    \E k \in KeepAlives :
        /\ kticks[k] = MaxTicks
        /\ kbeats[k] = MaxTicks + 1
        /\ last.op = "heartbeat"
        /\ last.out # <<>>

\* the _keep_alive() coroutines that are inside their while loop
Running == {k \in KeepAlives : kpc[k] \in {"send", "sleep", "connecting"}}

\* C15 as stated: at most one heartbeat loop is active on the Socket, so no
\* two loops send heartbeats side by side and a closure never has two
\* connect() calls awaited at once.
C15_OneHeartbeatLoop ==
    /\ Cardinality(Running) <= 1
    /\ Cardinality({k \in KeepAlives : kpc[k] = "connecting"}) <= 1

\* C18 as stated: a subscribe whose send finds the transport closed handles
\* or raises the closed-connection error and no other one, writes no frame
\* and changes neither connected nor the registry.
C18_SubscribeOnClosed ==
    [][\A t \in Topics :
          (Subscribe(t) /\ ws_connection # NoHandle /\ ~open[ws_connection]) =>
              /\ last'.err \in {"none", "ConnectionClosed"}
              /\ last'.out = <<>>
              /\ UNCHANGED <<regVars, connVars>>]_vars

\* C19 as stated: once disconnect() has completed and until the caller calls
\* connect() again, connected is false, the current handle is a closed one
\* and no step writes a frame, whatever a heartbeat loop started earlier
\* does.
C19_DisconnectStays ==
    dsc =>
        /\ ~connected
        /\ ~open[ws_connection]
        /\ last.out = <<>>

\* a step of the listen() coroutine
ListenStep ==
    \/ <<lpc, lh, msg, ci, li, calls, snap, lerr, again>>' #
           <<lpc, lh, msg, ci, li, calls, snap, lerr, again>>
    \/ queued' < queued

C16_CallbackContained ==
    /\ [](\A k \in KeepAlives : kerr[k] # "CallbackError")
    /\ [](lerr = "CallbackError" =>
            /\ kpc[1] = "send" => ENABLED KeepAliveSend(1)
            /\ kpc[1] = "connecting" => ENABLED KeepAliveReconnect(1, "rejected"))
    /\ [][(lpc = "callback" /\ lpc' = "failed") =>
              /\ lerr' = "CallbackError"
              /\ UNCHANGED <<kpc, ksend, kconn, kerr, kticks, kbeats>>
              /\ UNCHANGED <<channels, chanTopic, listeners>>
              /\ UNCHANGED <<connected, ws_connection, open>>]_vars

C16_Witness ==
    /\ lpc = "failed"
    /\ lerr = "CallbackError"
    /\ last.op = "heartbeat"
    /\ last.err = "none"
    /\ kbeats[1] = 2
    /\ Len(chanTopic) = 2

\* C17: while a callback for the envelope in msg is awaited, no step takes in
\* another envelope: msg stays, and the invocations made for it are only
\* added to, one at a time, whatever the heartbeat loop and the caller do in
\* between; an envelope that follows another one in the same loop has its
\* first callback invoked only after the loop was through with that one.
C17_ArrivalOrder ==
    /\ [](again => lpc = "callback" /\ calls # <<>>)
    /\ [][lpc = "callback" =>
              /\ msg' = msg
              /\ snap' = snap
              /\ again' => again
              /\ \/ calls' = calls
                 \/ /\ lpc' = "callback"
                    /\ Len(calls') = Len(calls) + 1
                    /\ SubSeq(calls', 1, Len(calls)) = calls]_vars

C17_Witness ==
    /\ again
    /\ lpc = "callback"
    /\ Len(calls) = 2
    /\ last.op = "heartbeat"
    /\ last.err = "none"

\* C20: the invocations made for the envelope in msg are all of listeners
\* that were registered on its topic and event when it was received (snap),
\* so a channel or listener added while a callback for it is awaited is not
\* invoked for it; and when its dispatch has run to its end each listener of
\* snap has been invoked exactly once.
C20_DispatchAtReceipt ==
    /\ \A n \in 1..Len(calls) :
           [chan |-> calls[n].chan, idx |-> calls[n].idx] \in Range(snap)
    /\ (msg # NoMsg /\ lpc = "recv" /\ msg.event # ChannelEvents.reply) =>
           \A r \in Range(snap) : Invocations(r) = 1
====
